---- MODULE Spec2Model ----
(***************************************************************************)
(* Model of aia_review_app.py: the AIA pay-application reviewer at         *)
(* section-subtotal granularity.  Two uploaded documents (previous and      *)
(* current period) are parsed into tables (parse_pdf / parse_excel via      *)
(* parse_file), aggregated per section (subtotal_by_section), outer-joined  *)
(* and flagged (merge_subtotals), then formatted and highlighted.           *)
(*                                                                         *)
(* Conventions of the model                                                *)
(*  - text is a sequence of one-character strings;                          *)
(*  - a number is an integer count of hundredths (float 15.00 is 1500);     *)
(*  - an optional number is << >> when absent (None / NaN) and <<v>> when   *)
(*    present; an aggregated mean is << >> or the reduced fraction <<n,d>>; *)
(*  - pandas semantics are those documented for groupby (sorted group       *)
(*    keys, null keys dropped, sum/mean skip nulls, the mean of no values   *)
(*    is NaN), merge(how="outer") (keys sorted lexicographically) and       *)
(*    fillna / != on NaN (NaN != x is True for every x).                    *)
(***************************************************************************)
EXTENDS Integers, Sequences, FiniteSets, TLC

(***************************************************************************)
(* Characters and the str methods parse_pdf relies on.                     *)
(***************************************************************************)
Digits == <<"0", "1", "2", "3", "4", "5", "6", "7", "8", "9">>
Digit == {Digits[i] : i \in 1..10}
Upper == {"A", "B", "C", "D", "E", "F", "U"}
Lower == {"a", "b", "c", "d", "e", "f", "i", "n", "p", "s"}
Sign == {"-", "+"}
\* The characters in code-point order, which is the order str comparison uses.
CodeOrder == <<" ", "$", "+", ",", "-", ".">> \o Digits \o
             <<"A", "B", "C", "D", "E", "F", "U",
               "a", "b", "c", "d", "e", "f", "i", "n", "p", "s">>

CharRank(c) == CHOOSE i \in 1..Len(CodeOrder) : CodeOrder[i] = c

DigitValue(c) == (CHOOSE i \in 1..10 : Digits[i] = c) - 1

\* str.__lt__: lexicographic by code point, a proper prefix sorts first.
RECURSIVE StrLess(_, _)
StrLess(a, b) ==
    IF b = << >> THEN FALSE
    ELSE IF a = << >> THEN TRUE
    ELSE IF a[1] # b[1] THEN CharRank(a[1]) < CharRank(b[1])
    ELSE StrLess(Tail(a), Tail(b))

\* str.isupper(): at least one cased character and no lower-case one.
IsUpper(line) ==
    /\ \E i \in 1..Len(line) : line[i] \in Upper
    /\ \A i \in 1..Len(line) : line[i] \notin Lower

\* len(line.split()): the number of maximal runs of non-whitespace.
SplitCount(line) ==
    Cardinality({i \in 1..Len(line) :
                    /\ line[i] # " "
                    /\ (i = 1 \/ line[i - 1] = " ")})

\* str.strip(): leading and trailing whitespace removed.
Strip(line) ==
    LET ink == {i \in 1..Len(line) : line[i] # " "}
    IN  IF ink = {} THEN << >>
        ELSE LET lo == CHOOSE i \in ink : \A j \in ink : i <= j
                 hi == CHOOSE i \in ink : \A j \in ink : j <= i
             IN  SubSeq(line, lo, hi)

(***************************************************************************)
(* re.findall(r"[-+]?\d*\.\d+|\d+", line)                                  *)
(***************************************************************************)
\* The first index >= p of line that holds no digit (Len(line) + 1 if none).
RECURSIVE DigitRunEnd(_, _)
DigitRunEnd(line, p) ==
    IF p > Len(line) \/ line[p] \notin Digit THEN p
    ELSE DigitRunEnd(line, p + 1)

\* The last index of the match that starts exactly at i, or 0 when the
\* pattern does not match there.  First alternative: optional sign, a
\* greedy digit run, a point, at least one digit.  Second alternative: a
\* digit run, tried only when the first fails (so it never takes a sign).
MatchEnd(line, i) ==
    LET p == IF line[i] \in Sign THEN i + 1 ELSE i
        k == DigitRunEnd(line, p)
    IN  IF /\ k + 1 <= Len(line)
           /\ line[k] = "."
           /\ line[k + 1] \in Digit
        THEN DigitRunEnd(line, k + 1) - 1
        ELSE IF line[i] \in Digit THEN DigitRunEnd(line, i) - 1
        ELSE 0

\* The non-overlapping matches, scanning left to right from index i.
RECURSIVE FindAllFrom(_, _)
FindAllFrom(line, i) ==
    IF i > Len(line) THEN << >>
    ELSE LET e == MatchEnd(line, i)
         IN  IF e = 0 THEN FindAllFrom(line, i + 1)
             ELSE <<SubSeq(line, i, e)>> \o FindAllFrom(line, e + 1)

FindNumbers(line) == FindAllFrom(line, 1)

\* The value of a run of decimal digits.
RECURSIVE DigitsValue(_)
DigitsValue(ds) ==
    IF ds = << >> THEN 0
    ELSE 10 * DigitsValue(SubSeq(ds, 1, Len(ds) - 1)) + DigitValue(ds[Len(ds)])

\* float(token) for a token FindNumbers returns, in hundredths.  The texts
\* of the model carry at most two fractional digits.
Float(token) ==
    LET neg  == token[1] = "-"
        body == IF token[1] \in Sign THEN Tail(token) ELSE token
        dots == {i \in 1..Len(body) : body[i] = "."}
        dot  == IF dots = {} THEN Len(body) + 1 ELSE CHOOSE i \in dots : TRUE
        int  == DigitsValue(SubSeq(body, 1, dot - 1))
        frac == SubSeq(body, dot + 1, Len(body)) \o <<"0", "0">>
        mag  == 100 * int + DigitsValue(SubSeq(frac, 1, 2))
    IN  IF neg THEN 0 - mag ELSE mag

(***************************************************************************)
(* Number formatting: f"{x:,.2f}" (format_numbers), and the other ways an   *)
(* amount is written on a page of a pay application.                        *)
(***************************************************************************)
Abs(v) == IF v < 0 THEN 0 - v ELSE v

\* The decimal digits of a natural number.
RECURSIVE DigitsOf(_)
DigitsOf(n) ==
    IF n < 10 THEN <<Digits[n + 1]>>
    ELSE DigitsOf(n \div 10) \o <<Digits[(n % 10) + 1]>>

\* A digit run with a comma before every group of three counted from the right.
RECURSIVE GroupThousands(_)
GroupThousands(ds) ==
    IF Len(ds) <= 3 THEN ds
    ELSE GroupThousands(SubSeq(ds, 1, Len(ds) - 3)) \o <<",">>
         \o SubSeq(ds, Len(ds) - 2, Len(ds))

SignText(v) == IF v < 0 THEN <<"-">> ELSE << >>

CentsText(v) == <<".", Digits[((Abs(v) % 100) \div 10) + 1], Digits[(Abs(v) % 10) + 1]>>

\* f"{x:,.2f}" of a number given in hundredths, e.g. 1000000 -> 10,000.00
FormatAccounting(v) ==
    SignText(v) \o GroupThousands(DigitsOf(Abs(v) \div 100)) \o CentsText(v)

\* The styles in which the amount v appears in page text.
WriteStyles == {"integer", "fixed", "accounting", "currency"}

WriteAmount(v, style) ==
    CASE style = "integer"    -> SignText(v) \o DigitsOf(Abs(v) \div 100)
      [] style = "fixed"      -> SignText(v) \o DigitsOf(Abs(v) \div 100) \o CentsText(v)
      [] style = "accounting" -> FormatAccounting(v)
      [] style = "currency"   -> SignText(v) \o <<"$">>
                                 \o GroupThousands(DigitsOf(Abs(v) \div 100))

\* One line of a page: a label followed by amounts, all in one style.
RECURSIVE WriteAmounts(_, _)
WriteAmounts(amounts, style) ==
    IF amounts = << >> THEN << >>
    ELSE <<" ">> \o WriteAmount(Head(amounts), style)
         \o WriteAmounts(Tail(amounts), style)

LineText(l) == l.label \o WriteAmounts(l.amounts, l.style)

\* page.extract_text().split("\n"): the lines of a page; a page without
\* text (None or "") is the empty sequence and is skipped.
ExtractLines(page) == [i \in 1..Len(page) |-> LineText(page[i])]

(***************************************************************************)
(* Uploaded files and parsed tables.                                       *)
(***************************************************************************)
PdfType == "application/pdf"
ExcelTypes == {"application/vnd.openxmlformats-officedocument.spreadsheetml.sheet",
               "application/vnd.ms-excel"}

required_cols == <<"Section", "Previous", "This Period", "Total">>
AllColumns == {"Section", "Previous", "This Period", "Total", "% Complete"}

Unspecified == <<"U", "n", "s", "p", "e", "c", "i", "f", "i", "e", "d">>

\* The uploader's value when nothing was uploaded.
NoFile == [type |-> "none", fault |-> "none", pages |-> << >>,
           columns |-> {}, cells |-> << >>]

\* A PDF upload: its pages (each a sequence of written lines) and where, if
\* anywhere, the PDF reader raises: "open" in pdfplumber.open, "page" in
\* extract_text of the last page.
PdfFile(pages, fault) ==
    [type |-> PdfType, fault |-> fault, pages |-> pages,
     columns |-> {}, cells |-> << >>]

\* A spreadsheet upload: the header row's column names and the data rows
\* (an empty cell is << >>); fault "open" is read_excel raising.
ExcelFile(type, columns, cells, fault) ==
    [type |-> type, fault |-> fault, pages |-> << >>,
     columns |-> columns, cells |-> cells]

\* An upload whose declared media type is neither PDF nor spreadsheet.
OtherFile == [type |-> "text/plain", fault |-> "none", pages |-> << >>,
              columns |-> {}, cells |-> << >>]

\* What a parser returns: None, a DataFrame without columns (pd.DataFrame([])),
\* or a DataFrame with the five columns and the given rows.
NoneDF == [kind |-> "None", rows |-> << >>]
DataFrame(rows) ==
    [kind |-> IF rows = << >> THEN "nocolumns" ELSE "table", rows |-> rows]
Table(rows) == [kind |-> "table", rows |-> rows]

Row(section, prev_amt, this_period, total, pct_complete) ==
    [Section |-> section, Previous |-> prev_amt, ThisPeriod |-> this_period,
     Total |-> total, Pct |-> pct_complete]

(***************************************************************************)
(* State.                                                                  *)
(***************************************************************************)
VARIABLES
    prev_file, curr_file,       \* the two uploads
    pc,                         \* position in the script
    page_i, line_i,             \* parse_pdf: page and line being read
    section, rows,              \* parse_pdf: locals (<< >> is section None)
    prev_df, curr_df,           \* parse_file results
    errors,                     \* st.error calls, in order
    shown,                      \* st.write row counts, in order
    prev_subtotals, curr_subtotals,
    merged_subtotals,           \* merge result, later with formatted numbers
    highlighted                 \* per merged row: painted red

vars == <<prev_file, curr_file, pc, page_i, line_i, section, rows, prev_df,
          curr_df, errors, shown, prev_subtotals, curr_subtotals,
          merged_subtotals, highlighted>>

inputs == <<prev_file, curr_file>>
pdf_locals == <<page_i, line_i, section, rows>>
later == <<shown, prev_subtotals, curr_subtotals, merged_subtotals, highlighted>>

\* Which upload the parse in progress reads.
OnPrev == pc \in {"parse_prev", "pdf_prev"}
File == IF OnPrev THEN prev_file ELSE curr_file
Doc == IF OnPrev THEN "prev" ELSE "curr"

\* parse_file returns df: it is bound to prev_df (line 100) or curr_df
\* (line 101) and the script goes on.
Return(df) ==
    IF OnPrev
    THEN /\ prev_df' = df
         /\ pc' = "parse_curr"
         /\ UNCHANGED curr_df
    ELSE /\ curr_df' = df
         /\ pc' = "show_counts"
         /\ UNCHANGED prev_df

Error(msg) == errors' = Append(errors, [doc |-> Doc, msg |-> msg])

(***************************************************************************)
(* parse_file and parse_pdf.                                               *)
(***************************************************************************)
\* parse_file: file is None.
ParseNoFile ==
    /\ pc \in {"parse_prev", "parse_curr"}
    /\ File.type = "none"
    /\ Return(NoneDF)
    /\ UNCHANGED <<inputs, pdf_locals, errors, later>>

\* parse_file: the declared type is neither PDF nor spreadsheet.
ParseUnsupported ==
    /\ pc \in {"parse_prev", "parse_curr"}
    /\ File.type \notin {"none", PdfType} \cup ExcelTypes
    /\ Error(<<"Unsupported file type">>)
    /\ Return(NoneDF)
    /\ UNCHANGED <<inputs, pdf_locals, later>>

\* Faulty variant of parse_pdf's start: section is not reset to None.
PdfOpen_KeepSection ==
    /\ pc \in {"parse_prev", "parse_curr"}
    /\ File.type = PdfType
    /\ File.fault # "open"
    /\ pc' = IF OnPrev THEN "pdf_prev" ELSE "pdf_curr"
    /\ rows' = << >>
    /\ page_i' = 1
    /\ line_i' = 1
    /\ UNCHANGED <<inputs, section, prev_df, curr_df, errors, later>>

\* parse_pdf: rows = [], the PDF opens, section = None.
PdfOpen ==
    /\ pc \in {"parse_prev", "parse_curr"}
    /\ File.type = PdfType
    /\ File.fault # "open"
    /\ pc' = IF OnPrev THEN "pdf_prev" ELSE "pdf_curr"
    /\ rows' = << >>
    /\ section' = << >>
    /\ page_i' = 1
    /\ line_i' = 1
    /\ UNCHANGED <<inputs, prev_df, curr_df, errors, later>>

\* parse_pdf: pdfplumber.open raises; the handler reports and returns None.
PdfOpenFails ==
    /\ pc \in {"parse_prev", "parse_curr"}
    /\ File.type = PdfType
    /\ File.fault = "open"
    /\ Error(<<"Error parsing PDF">>)
    /\ Return(NoneDF)
    /\ rows' = << >>
    /\ UNCHANGED <<inputs, page_i, line_i, section, later>>

InPdf == pc \in {"pdf_prev", "pdf_curr"}
PageFaulty == File.fault = "page" /\ page_i = Len(File.pages)
Lines == ExtractLines(File.pages[page_i])
Line == Lines[line_i]
AtLine == /\ InPdf
          /\ page_i <= Len(File.pages)
          /\ ~PageFaulty
          /\ line_i <= Len(Lines)

MaxHeaderTokens == 5
MinNumbers == 3

\* "Detect section header (all caps, short)".
IsSectionHeader(line) == IsUpper(line) /\ SplitCount(line) <= MaxHeaderTokens

\* The dict appended for a line with at least three numbers.
PdfRow(sec, numbers) ==
    Row(IF sec = << >> THEN Unspecified ELSE sec,
        <<Float(numbers[1])>>,
        <<Float(numbers[2])>>,
        <<Float(numbers[3])>>,
        IF Len(numbers) > 3 THEN <<Float(numbers[4])>> ELSE << >>)

\* A section-header line: remember it, go to the next line.
PdfSectionHeader ==
    /\ AtLine
    /\ IsSectionHeader(Line)
    /\ section' = Strip(Line)
    /\ line_i' = line_i + 1
    /\ UNCHANGED <<inputs, pc, page_i, rows, prev_df, curr_df, errors, later>>

\* A line with at least three numbers: append a row.
PdfDataRow ==
    /\ AtLine
    /\ ~IsSectionHeader(Line)
    /\ Len(FindNumbers(Line)) >= MinNumbers
    /\ rows' = Append(rows, PdfRow(section, FindNumbers(Line)))
    /\ line_i' = line_i + 1
    /\ UNCHANGED <<inputs, pc, page_i, section, prev_df, curr_df, errors, later>>

\* Any other line is passed over.
PdfSkipLine ==
    /\ AtLine
    /\ ~IsSectionHeader(Line)
    /\ Len(FindNumbers(Line)) < MinNumbers
    /\ line_i' = line_i + 1
    /\ UNCHANGED <<inputs, pc, page_i, section, rows, prev_df, curr_df,
                   errors, later>>

\* The page's lines are exhausted (at once for a page without text).
PdfNextPage ==
    /\ InPdf
    /\ page_i <= Len(File.pages)
    /\ ~PageFaulty
    /\ line_i > Len(Lines)
    /\ page_i' = page_i + 1
    /\ line_i' = 1
    /\ UNCHANGED <<inputs, pc, section, rows, prev_df, curr_df, errors, later>>

\* Faulty variant of the handler: the exception is not caught and ends the
\* script run.
PdfPageFails_Uncaught ==
    /\ pc \in {"pdf_prev", "pdf_curr"}
    /\ page_i <= Len(File.pages)
    /\ File.fault = "page" /\ page_i = Len(File.pages)
    /\ pc' = "crashed"
    /\ UNCHANGED <<inputs, pdf_locals, prev_df, curr_df, errors, later>>

\* extract_text raises: the handler reports and returns None, the rows
\* read so far are lost.
PdfPageFails ==
    /\ InPdf
    /\ page_i <= Len(File.pages)
    /\ PageFaulty
    /\ Error(<<"Error parsing PDF">>)
    /\ Return(NoneDF)
    /\ UNCHANGED <<inputs, pdf_locals, later>>

\* All pages read: return pd.DataFrame(rows).
PdfReturn ==
    /\ InPdf
    /\ page_i > Len(File.pages)
    /\ Return(DataFrame(rows))
    /\ UNCHANGED <<inputs, pdf_locals, errors, later>>

(***************************************************************************)
(* parse_excel.                                                            *)
(***************************************************************************)
InExcel == pc \in {"parse_prev", "parse_curr"} /\ File.type \in ExcelTypes

MissingRequired(file) ==
    {i \in 1..Len(required_cols) : required_cols[i] \notin file.columns}

\* The first required column, in the order of the list, that is absent.
FirstMissing(file) ==
    required_cols[CHOOSE i \in MissingRequired(file) :
                      \A j \in MissingRequired(file) : i <= j]

\* df[[...five columns...]], "% Complete" filled with None when the sheet
\* has no such column.
ExcelRows(file) ==
    [i \in 1..Len(file.cells) |->
        IF "% Complete" \in file.columns THEN file.cells[i]
        ELSE [file.cells[i] EXCEPT !.Pct = << >>]]

\* pd.read_excel raises.
ParseExcelFails ==
    /\ InExcel
    /\ File.fault # "none"
    /\ Error(<<"Error parsing Excel">>)
    /\ Return(NoneDF)
    /\ UNCHANGED <<inputs, pdf_locals, later>>

\* A required column is absent.
ParseExcelMissingColumn ==
    /\ InExcel
    /\ File.fault = "none"
    /\ MissingRequired(File) # {}
    /\ Error(<<"Excel file missing required column", FirstMissing(File)>>)
    /\ Return(NoneDF)
    /\ UNCHANGED <<inputs, pdf_locals, later>>

ParseExcelOk ==
    /\ InExcel
    /\ File.fault = "none"
    /\ MissingRequired(File) = {}
    /\ Return(Table(ExcelRows(File)))
    /\ UNCHANGED <<inputs, pdf_locals, errors, later>>

\* "Show parsed counts": len(df) of each table that is not None.
ShowParsedCounts ==
    /\ pc = "show_counts"
    /\ shown' = (IF prev_df.kind = "None" THEN << >>
                 ELSE <<[doc |-> "prev", n |-> Len(prev_df.rows)]>>)
                \o (IF curr_df.kind = "None" THEN << >>
                    ELSE <<[doc |-> "curr", n |-> Len(curr_df.rows)]>>)
    /\ pc' = "subtotal_prev"
    /\ UNCHANGED <<inputs, pdf_locals, prev_df, curr_df, errors,
                   prev_subtotals, curr_subtotals, merged_subtotals, highlighted>>

(***************************************************************************)
(* subtotal_by_section: groupby("Section").agg(sum, sum, sum, mean).       *)
(***************************************************************************)
\* A set of strings as the ascending sequence.
RECURSIVE SortKeys(_)
SortKeys(S) ==
    IF S = {} THEN << >>
    ELSE LET m == CHOOSE k \in S : \A o \in S \ {k} : StrLess(k, o)
         IN  <<m>> \o SortKeys(S \ {m})

\* The group keys: the non-null Section values.
GroupKeys(rs) == {rs[i].Section : i \in 1..Len(rs)} \ {<< >>}

\* The cells of one column in the rows of one group, nulls left out.
RECURSIVE GroupCells(_, _, _)
GroupCells(rs, key, col) ==
    IF rs = << >> THEN << >>
    ELSE (IF Head(rs).Section = key THEN Head(rs)[col] ELSE << >>)
         \o GroupCells(Tail(rs), key, col)

RECURSIVE SeqSum(_)
SeqSum(xs) == IF xs = << >> THEN 0 ELSE Head(xs) + SeqSum(Tail(xs))

RECURSIVE GCD(_, _)
GCD(a, b) == IF b = 0 THEN a ELSE GCD(b, a % b)

\* n/d in lowest terms, d > 0.
Fraction(n, d) ==
    LET g == GCD(Abs(n), d) IN <<(IF n < 0 THEN 0 - (Abs(n) \div g) ELSE n \div g),
                                 d \div g>>

\* "sum": nulls skipped, the sum of nothing is 0.
AggSum(rs, key, col) == <<SeqSum(GroupCells(rs, key, col))>>

\* Faulty variant of "mean": a null counts as zero.
AggMean_NullsAsZero(rs, key, col) ==
    Fraction(SeqSum(GroupCells(rs, key, col)),
             Cardinality({i \in 1..Len(rs) : rs[i].Section = key}))

\* "mean": nulls skipped, the mean of nothing is NaN.
AggMean(rs, key, col) ==
    LET xs == GroupCells(rs, key, col)
    IN  IF xs = << >> THEN << >> ELSE Fraction(SeqSum(xs), Len(xs))

GroupRow(rs, key) ==
    Row(key,
        AggSum(rs, key, "Previous"),
        AggSum(rs, key, "ThisPeriod"),
        AggSum(rs, key, "Total"),
        AggMean(rs, key, "Pct"))

\* One row per group, groups in ascending key order (sort=True), rows with
\* a null key dropped (dropna=True), Section back as a column.
subtotal_by_section(df) ==
    IF df.kind = "None" THEN NoneDF
    ELSE LET keys == SortKeys(GroupKeys(df.rows))
         IN  Table([i \in 1..Len(keys) |-> GroupRow(df.rows, keys[i])])

\* Line 122.
SubtotalPrev ==
    /\ pc = "subtotal_prev"
    /\ prev_df.kind # "nocolumns"
    /\ prev_subtotals' = subtotal_by_section(prev_df)
    /\ pc' = "subtotal_curr"
    /\ UNCHANGED <<inputs, pdf_locals, prev_df, curr_df, errors, shown,
                   curr_subtotals, merged_subtotals, highlighted>>

\* Line 123.
SubtotalCurr ==
    /\ pc = "subtotal_curr"
    /\ curr_df.kind # "nocolumns"
    /\ curr_subtotals' = subtotal_by_section(curr_df)
    /\ pc' = "merge"
    /\ UNCHANGED <<inputs, pdf_locals, prev_df, curr_df, errors, shown,
                   prev_subtotals, merged_subtotals, highlighted>>

\* A PDF that yielded no row gives a DataFrame without a "Section" column:
\* groupby raises KeyError, nothing catches it and the script run ends.
SubtotalKeyError ==
    /\ \/ pc = "subtotal_prev" /\ prev_df.kind = "nocolumns"
       \/ pc = "subtotal_curr" /\ curr_df.kind = "nocolumns"
    /\ pc' = "crashed"
    /\ UNCHANGED <<inputs, pdf_locals, prev_df, curr_df, errors, later>>

(***************************************************************************)
(* merge_subtotals.                                                        *)
(***************************************************************************)
\* The row of an aggregated table with the given key, or a row of NaN when
\* the table has none (the absent side of the outer join).
SideRow(tbl, key) ==
    IF \E i \in 1..Len(tbl.rows) : tbl.rows[i].Section = key
    THEN tbl.rows[CHOOSE i \in 1..Len(tbl.rows) : tbl.rows[i].Section = key]
    ELSE Row(key, << >>, << >>, << >>, << >>)

\* Series.fillna(0) on one cell.
FillNa0(cell) == IF cell = << >> THEN 0 ELSE cell[1]

\* Faulty variant of !=: two NaN compare equal.
NotEqual_NaNEqual(a, b) == a # b

\* Elementwise != of two float cells: NaN differs from everything.
NotEqual(a, b) == a = << >> \/ b = << >> \/ a # b

\* Faulty variant of line 132: the current period's own Previous as baseline.
Mismatch_OwnPrevious(p, c) ==
    FillNa0(c.Previous) + FillNa0(c.ThisPeriod) # FillNa0(c.Total)

\* Line 132.
Mismatch(p, c) ==
    FillNa0(p.Previous) + FillNa0(c.ThisPeriod) # FillNa0(c.Total)

\* Line 133.
Pct_Inconsistency(p, c) == NotEqual(p.Pct, c.Pct)

MergedRow(prev, curr, key) ==
    LET p == SideRow(prev, key)
        c == SideRow(curr, key)
    IN  [Section |-> key,
         Previous_prev |-> p.Previous, ThisPeriod_prev |-> p.ThisPeriod,
         Total_prev |-> p.Total, Pct_prev |-> p.Pct,
         Previous_curr |-> c.Previous, ThisPeriod_curr |-> c.ThisPeriod,
         Total_curr |-> c.Total, Pct_curr |-> c.Pct,
         Mismatch |-> Mismatch(p, c),
         Pct_Inconsistency |-> Pct_Inconsistency(p, c)]

\* Faulty variant of the join: how="left".
MergeKeys_Left(prev, curr) == SortKeys(GroupKeys(prev.rows))

\* The keys of the outer join, in the order of the result's rows.
MergeKeys(prev, curr) == SortKeys(GroupKeys(prev.rows) \cup GroupKeys(curr.rows))

merge_subtotals(prev, curr) ==
    IF prev.kind = "None" \/ curr.kind = "None" THEN NoneDF
    ELSE LET keys == MergeKeys(prev, curr)
         IN  Table([i \in 1..Len(keys) |-> MergedRow(prev, curr, keys[i])])

\* Line 136.
MergeSubtotals ==
    /\ pc = "merge"
    /\ merged_subtotals' = merge_subtotals(prev_subtotals, curr_subtotals)
    /\ pc' = "report"
    /\ UNCHANGED <<inputs, pdf_locals, prev_df, curr_df, errors, shown,
                   prev_subtotals, curr_subtotals, highlighted>>

(***************************************************************************)
(* format_numbers and highlight_flags.                                     *)
(***************************************************************************)
\* n/d rounded to the nearest integer, ties to even.
RoundHalfEven(n, d) ==
    LET q == Abs(n) \div d
        r == Abs(n) % d
        m == IF 2 * r > d \/ (2 * r = d /\ q % 2 = 1) THEN q + 1 ELSE q
    IN  IF n < 0 THEN 0 - m ELSE m

\* f"{x:,.2f}" if pd.notnull(x) else "" : a cell holds nothing, an amount
\* <<v>> or a mean <<n, d>>.
FormatCell(cell) ==
    CASE Len(cell) = 0 -> << >>
      [] Len(cell) = 1 -> FormatAccounting(cell[1])
      [] Len(cell) = 2 -> FormatAccounting(RoundHalfEven(cell[1], cell[2]))

format_numbers(df) ==
    Table([i \in 1..Len(df.rows) |->
        [df.rows[i] EXCEPT !.Previous_prev = FormatCell(@),
                           !.ThisPeriod_curr = FormatCell(@),
                           !.Total_curr = FormatCell(@),
                           !.Pct_prev = FormatCell(@),
                           !.Pct_curr = FormatCell(@)]])

\* A row is painted when either flag is set.
highlight_flags(row) == row.Mismatch \/ row.Pct_Inconsistency

\* Lines 148-168 with a merged table: format, then style row by row.
Report ==
    /\ pc = "report"
    /\ merged_subtotals.kind # "None"
    /\ merged_subtotals' = format_numbers(merged_subtotals)
    /\ highlighted' = [i \in 1..Len(merged_subtotals'.rows) |->
                          highlight_flags(merged_subtotals'.rows[i])]
    /\ pc' = "done"
    /\ UNCHANGED <<inputs, pdf_locals, prev_df, curr_df, errors, shown,
                   prev_subtotals, curr_subtotals>>

\* Lines 148-168 without one: nothing is displayed.
ReportNothing ==
    /\ pc = "report"
    /\ merged_subtotals.kind = "None"
    /\ pc' = "done"
    /\ UNCHANGED <<inputs, pdf_locals, prev_df, curr_df, errors, later>>

(***************************************************************************)
(* The uploads considered.                                                 *)
(***************************************************************************)
MaxRows == 2
MaxItems == 3

BoundedSeqs(S, n) == UNION {[1..k -> S] : k \in 0..n}

\* Spreadsheet rows: section A at 500 + 200 = 700 with 50 percent; A with
\* a total of 1700 and no percentage; A without a total; B all zero; a row
\* without a section.
SheetRows ==
    {Row(<<"A">>, <<50000>>, <<20000>>, <<70000>>, <<5000>>),
     Row(<<"A">>, <<50000>>, <<20000>>, <<170000>>, << >>),
     Row(<<"A">>, <<10000>>, <<0>>, << >>, <<2500>>),
     Row(<<"B">>, <<0>>, <<0>>, <<0>>, << >>),
     Row(<< >>, <<10000>>, <<10000>>, <<20000>>, <<1000>>)}

Xlsx == "application/vnd.openxmlformats-officedocument.spreadsheetml.sheet"
Xls == "application/vnd.ms-excel"

Sheets ==
    {ExcelFile(Xlsx, AllColumns, cells, "none") :
        cells \in BoundedSeqs(SheetRows, MaxRows)}

WrittenLine(label, amounts, style) ==
    [label |-> label, amounts |-> amounts, style |-> style]

HeaderB == WrittenLine(<<"B">>, << >>, "integer")
HeaderA == WrittenLine(<<"A">>, << >>, "integer")
PlainRow == WrittenLine(<<"c">>, <<50000, 20000, 70000>>, "integer")
AccountingRow ==
    WrittenLine(<<"c">>, <<1000000, 150000, 1150000, 5000>>, "accounting")
CurrencyRow == WrittenLine(<<"c">>, <<150000, 0, 150000>>, "currency")
NegativeRow == WrittenLine(<<"c">>, <<-50000, 20000, -30000>>, "integer")
UpperRow == WrittenLine(<<"D">>, <<50000, 20000, 70000>>, "fixed")
LongUpper ==
    WrittenLine(<<"A", " ", "B", " ", "C", " ", "D", " ", "E", " ", "F">>,
                << >>, "integer")
PageBreak == WrittenLine(<< >>, << >>, "break")

PageItems == {HeaderB, PlainRow, AccountingRow, NegativeRow, UpperRow,
              LongUpper, PageBreak}

\* The pages a run of lines and page breaks makes up.
RECURSIVE SplitPages(_)
SplitPages(items) ==
    IF items = << >> THEN << << >> >>
    ELSE LET rest == SplitPages(Tail(items))
         IN  IF Head(items) = PageBreak THEN << << >> >> \o rest
             ELSE <<(<<Head(items)>> \o Head(rest))>> \o Tail(rest)

Pdfs ==
    {PdfFile(SplitPages(items), "none") :
        items \in BoundedSeqs(PageItems, MaxItems)}

SectionedPdf == PdfFile(<< <<HeaderA, PlainRow>> >>, "none")
HeaderlessPdf == PdfFile(<< <<CurrencyRow, LongUpper>> >>, "none")
UnopenablePdf == PdfFile(<< <<PlainRow>> >>, "open")
SheetWithoutPct ==
    ExcelFile(Xls, AllColumns \ {"% Complete"},
              <<Row(<<"B">>, <<50000>>, <<20000>>, <<70000>>, <<5000>>)>>, "none")

\* One upload of every other kind.
OtherUploads ==
    {NoFile,
     OtherFile,
     SectionedPdf,
     HeaderlessPdf,
     UnopenablePdf,
     PdfFile(<< <<PlainRow>>, <<PlainRow>> >>, "page"),
     PdfFile(<< << >> >>, "none"),
     ExcelFile(Xlsx, AllColumns \ {"Total"},
               <<Row(<<"A">>, <<50000>>, <<20000>>, << >>, <<5000>>)>>, "none"),
     ExcelFile(Xls, AllColumns,
               <<Row(<<"A">>, <<50000>>, <<20000>>, <<70000>>, <<5000>>)>>, "open"),
     SheetWithoutPct}

\* The current documents paired with a PDF under extraction.
Companions == {SectionedPdf, HeaderlessPdf, UnopenablePdf, SheetWithoutPct}

Start ==
    /\ pc = "parse_prev"
    /\ page_i = 0
    /\ line_i = 0
    /\ section = << >>
    /\ rows = << >>
    /\ prev_df = NoneDF
    /\ curr_df = NoneDF
    /\ errors = << >>
    /\ shown = << >>
    /\ prev_subtotals = NoneDF
    /\ curr_subtotals = NoneDF
    /\ merged_subtotals = NoneDF
    /\ highlighted = << >>

\* Spreadsheets on both sides, for aggregation and reconciliation.
Init ==
    /\ prev_file \in Sheets \cup OtherUploads
    /\ curr_file \in Sheets \cup OtherUploads
    /\ Start

\* A PDF as the previous document, for extraction.
InitPdf ==
    /\ prev_file \in Pdfs \cup OtherUploads
    /\ curr_file \in Companions
    /\ Start

Next ==
    \/ ParseNoFile
    \/ ParseUnsupported
    \/ PdfOpen
    \/ PdfOpenFails
    \/ PdfSectionHeader
    \/ PdfDataRow
    \/ PdfSkipLine
    \/ PdfNextPage
    \/ PdfPageFails
    \/ PdfReturn
    \/ ParseExcelFails
    \/ ParseExcelMissingColumn
    \/ ParseExcelOk
    \/ ShowParsedCounts
    \/ SubtotalPrev
    \/ SubtotalCurr
    \/ SubtotalKeyError
    \/ MergeSubtotals
    \/ Report
    \/ ReportNothing

Spec == Init /\ [][Next]_vars
SpecPdf == InitPdf /\ [][Next]_vars

(***************************************************************************)
(* Vocabulary of the properties.                                           *)
(***************************************************************************)
Parsed == pc \notin {"parse_prev", "pdf_prev", "parse_curr", "pdf_curr"}
PrevParsed == pc \notin {"parse_prev", "pdf_prev"}
Aggregated == pc \in {"merge", "report", "done"}
Merged == pc \in {"report", "done"} /\ merged_subtotals.kind = "table"

\* The non-null section keys of a table, as a set and in order of first
\* appearance.
KeySet(tbl) == {tbl.rows[i].Section : i \in 1..Len(tbl.rows)} \ {<< >>}

RECURSIVE FirstAppearance(_, _)
FirstAppearance(rs, seen) ==
    IF rs = << >> THEN << >>
    ELSE LET k == Head(rs).Section
         IN  IF k = << >> \/ k \in seen THEN FirstAppearance(Tail(rs), seen)
             ELSE <<k>> \o FirstAppearance(Tail(rs), seen \cup {k})

RowsWithKey(tbl, k) == {i \in 1..Len(tbl.rows) : tbl.rows[i].Section = k}

\* The percent_complete an aggregated table holds for a key: absent when
\* the key is not in the table.
PctOf(tbl, k) ==
    IF RowsWithKey(tbl, k) = {} THEN << >>
    ELSE tbl.rows[CHOOSE i \in RowsWithKey(tbl, k) : TRUE].Pct

\* The sum of a column over a set of row indices, absent cells left out.
RECURSIVE SumOver(_, _, _)
SumOver(tbl, idx, col) ==
    IF idx = {} THEN 0
    ELSE LET i == CHOOSE j \in idx : TRUE
         IN  FillNa0(tbl.rows[i][col]) + SumOver(tbl, idx \ {i}, col)

Filled(tbl, idx, col) == {i \in idx : tbl.rows[i][col] # << >>}

\* All lines of a PDF, page after page.
RECURSIVE AllLines(_)
AllLines(pages) ==
    IF pages = << >> THEN << >>
    ELSE ExtractLines(Head(pages)) \o AllLines(Tail(pages))

\* The written lines of a PDF, page after page.
RECURSIVE AllWritten(_)
AllWritten(pages) ==
    IF pages = << >> THEN << >> ELSE Head(pages) \o AllWritten(Tail(pages))

\* The rows one pass over the lines of a document yields, given the section
\* header last seen (<< >> for none).
RECURSIVE ExpectedPdfRows(_, _)
ExpectedPdfRows(lines, last) ==
    IF lines = << >> THEN << >>
    ELSE IF IsSectionHeader(Head(lines))
         THEN ExpectedPdfRows(Tail(lines), Strip(Head(lines)))
    ELSE IF Len(FindNumbers(Head(lines))) >= MinNumbers
         THEN <<PdfRow(last, FindNumbers(Head(lines)))>>
              \o ExpectedPdfRows(Tail(lines), last)
    ELSE ExpectedPdfRows(Tail(lines), last)

\* A document-level failure: unsupported media type, reader exception,
\* required spreadsheet column absent.
Fails(file) ==
    \/ file.type \notin {"none", PdfType} \cup ExcelTypes
    \/ file.type \in {PdfType} \cup ExcelTypes /\ file.fault # "none"
    \/ file.type \in ExcelTypes /\ MissingRequired(file) # {}

\* The table a document yields when extracted on its own.
ExpectedTable(file) ==
    IF file.type = "none" \/ Fails(file) THEN NoneDF
    ELSE IF file.type = PdfType
         THEN DataFrame(ExpectedPdfRows(AllLines(file.pages), << >>))
    ELSE Table(ExcelRows(file))

Tags(tbl) == [i \in 1..Len(tbl.rows) |-> tbl.rows[i].Section]

(***************************************************************************)
(* Properties.                                                             *)
(***************************************************************************)
MergedRows == merged_subtotals.rows

\* C1: for every section key of the reconciliation, Pct_Inconsistency is
\* false when percent_complete is absent on both sides, true when it is
\* absent on exactly one side, and otherwise true iff the two values differ.
C1_PctFlagAbsentAware ==
    Merged =>
        \A i \in 1..Len(MergedRows) :
            LET p == PctOf(prev_subtotals, MergedRows[i].Section)
                c == PctOf(curr_subtotals, MergedRows[i].Section)
            IN  MergedRows[i].Pct_Inconsistency =
                    (IF p = << >> /\ c = << >> THEN FALSE
                     ELSE IF p = << >> \/ c = << >> THEN TRUE
                     ELSE p # c)

\* C2: for every key present in both aggregated tables, Mismatch is true
\* iff the previous period's previous_billed plus the current period's
\* this_period_billed differs from the current period's completed_to_date.
C2_AmountMismatchFormula ==
    Merged =>
        \A i \in 1..Len(MergedRows) :
            LET k  == MergedRows[i].Section
                ip == RowsWithKey(prev_subtotals, k)
                ic == RowsWithKey(curr_subtotals, k)
            IN  (ip # {} /\ ic # {}) =>
                    MergedRows[i].Mismatch =
                        (SumOver(prev_subtotals, ip, "Previous")
                           + SumOver(curr_subtotals, ic, "ThisPeriod")
                         # SumOver(curr_subtotals, ic, "Total"))

\* C2's example: previous 500, this period 200, current total 1700 is
\* flagged.
C2_Witness ==
    /\ Merged
    /\ \E i \in 1..Len(MergedRows) :
          /\ RowsWithKey(prev_subtotals, MergedRows[i].Section) # {}
          /\ RowsWithKey(curr_subtotals, MergedRows[i].Section) # {}
          /\ MergedRows[i].ThisPeriod_prev = <<20000>>
          /\ MergedRows[i].Total_prev = <<70000>>
          /\ MergedRows[i].Previous_curr = <<50000>>
          /\ MergedRows[i].Mismatch
          /\ pc = "report"
          /\ MergedRows[i].Previous_prev = <<50000>>
          /\ MergedRows[i].ThisPeriod_curr = <<20000>>
          /\ MergedRows[i].Total_curr = <<170000>>

C4_UnionOrderAsEncountered ==
    Merged =>
        LET first == FirstAppearance(prev_df.rows, {})
        IN  [i \in 1..Len(MergedRows) |-> MergedRows[i].Section]
              = first \o FirstAppearance(curr_df.rows, KeySet(prev_df))

\* A row of a parsed table that has what reconciliation needs.
Valid(r) == r.Previous # << >> /\ r.Total # << >>
ValidRows(tbl, k) == {i \in RowsWithKey(tbl, k) : Valid(tbl.rows[i])}

\* C5: a row missing completed_to_date (or previous_billed) is dropped
\* before aggregation: the aggregated sums are those of the remaining rows
\* and a key with no remaining row has no aggregate.
C5_InvalidRowsDropped ==
    (pc \in {"subtotal_curr", "merge", "report", "done"}
       /\ prev_df.kind = "table") =>
        /\ KeySet(prev_subtotals)
             = {k \in KeySet(prev_df) : ValidRows(prev_df, k) # {}}
        /\ \A j \in 1..Len(prev_subtotals.rows) :
              LET g == prev_subtotals.rows[j]
                  v == ValidRows(prev_df, g.Section)
              IN  /\ g.Previous = <<SumOver(prev_df, v, "Previous")>>
                  /\ g.ThisPeriod = <<SumOver(prev_df, v, "ThisPeriod")>>
                  /\ g.Total = <<SumOver(prev_df, v, "Total")>>

\* The amounts written on the data lines of a PDF: a line that is no
\* section header and carries at least three amounts.
RECURSIVE WrittenAmounts(_)
WrittenAmounts(written) ==
    IF written = << >> THEN << >>
    ELSE (IF /\ ~IsSectionHeader(LineText(Head(written)))
             /\ Len(Head(written).amounts) >= MinNumbers
          THEN <<Head(written).amounts>> ELSE << >>)
         \o WrittenAmounts(Tail(written))

RowAmounts(r) == r.Previous \o r.ThisPeriod \o r.Total \o r.Pct

\* C6: every amount written on a line, with thousands separators, currency
\* symbol or sign, is read back as that amount: each row's previous,
\* this-period, completed-to-date (and percent) values are the line's
\* first, second, third (and fourth) written amounts.
C6_AmountsReadAsWritten ==
    (PrevParsed /\ prev_file.type = PdfType /\ prev_file.fault = "none") =>
        [i \in 1..Len(prev_df.rows) |-> RowAmounts(prev_df.rows[i])]
          = WrittenAmounts(AllWritten(prev_file.pages))

PdfRead(file) == file.type = PdfType /\ file.fault = "none"

\* C7: each data row carries the section header last seen before it in
\* its own document, carried across pages, or "Unspecified"; a header of
\* one document never tags a row of the other, and a header line yields
\* no row.
C7_SectionTagging ==
    /\ (PrevParsed /\ PdfRead(prev_file)) =>
          Tags(prev_df) = Tags(DataFrame(ExpectedPdfRows(AllLines(prev_file.pages), << >>)))
    /\ (Parsed /\ PdfRead(curr_file)) =>
          Tags(curr_df) = Tags(DataFrame(ExpectedPdfRows(AllLines(curr_file.pages), << >>)))

\* The previous document has its header on page 1 and the row it tags on
\* page 2; the current document has a row before any header.
C7_Witness ==
    /\ Parsed
    /\ prev_file = PdfFile(<< <<HeaderB>>, <<PlainRow>> >>, "none")
    /\ Tags(prev_df) = << <<"B">> >>
    /\ PdfRead(curr_file)
    /\ Tags(curr_df) = <<Unspecified>>

\* sub is the aggregate of the parsed table df.
AggregateOf(df, sub) ==
    /\ \A k \in KeySet(df) : Cardinality(RowsWithKey(sub, k)) = 1
    /\ \A j \in 1..Len(sub.rows) :
          LET g   == sub.rows[j]
              idx == RowsWithKey(df, g.Section)
              has == Filled(df, idx, "Pct")
          IN  /\ idx # {}
              /\ g.Previous = <<SumOver(df, idx, "Previous")>>
              /\ g.ThisPeriod = <<SumOver(df, idx, "ThisPeriod")>>
              /\ g.Total = <<SumOver(df, idx, "Total")>>
              /\ (has = {}) = (g.Pct = << >>)
              /\ has # {} =>
                    g.Pct[1] * Cardinality(has) = SumOver(df, has, "Pct") * g.Pct[2]

\* C8: the aggregate has exactly one row per distinct section key of its
\* input; its three amounts are the sums over the rows with that key and
\* its percent_complete is the average over those of them that have one,
\* absent when none has.
C8_OneRowPerKeyWithSumsAndMean ==
    /\ (Aggregated /\ prev_df.kind = "table") => AggregateOf(prev_df, prev_subtotals)
    /\ (Aggregated /\ curr_df.kind = "table") => AggregateOf(curr_df, curr_subtotals)

\* Two rows of one section, one with 50 percent and one without: the
\* average is 50.
C8_Witness ==
    /\ Aggregated
    /\ prev_df.kind = "table"
    /\ Len(prev_df.rows) = 2
    /\ Len(prev_subtotals.rows) = 1
    /\ prev_subtotals.rows[1].Pct = <<5000, 1>>
    /\ Cardinality(Filled(prev_df, {1, 2}, "Pct")) = 1
    /\ prev_subtotals.rows[1].Total = <<240000>>

ErrorsOf(doc) == {i \in 1..Len(errors) : errors[i].doc = doc}

\* C9: a document-level failure is reported and yields no table for that
\* document, and the other document yields the table it yields on its own.
C9_FailureAbortsOneDocument ==
    Parsed =>
        /\ Fails(prev_file) =>
              /\ prev_df = NoneDF
              /\ ErrorsOf("prev") # {}
              /\ curr_df = ExpectedTable(curr_file)
        /\ Fails(curr_file) =>
              /\ curr_df = NoneDF
              /\ ErrorsOf("curr") # {}
              /\ prev_df = ExpectedTable(prev_file)

\* The previous PDF failed on its last page and the current PDF was read.
C9_Witness ==
    /\ Parsed
    /\ prev_file.type = PdfType
    /\ prev_file.fault = "page"
    /\ prev_df = NoneDF
    /\ Len(errors) = 1
    /\ curr_df.kind = "table"
    /\ Len(curr_df.rows) = 1

OneSided(k) ==
    (RowsWithKey(prev_subtotals, k) = {}) # (RowsWithKey(curr_subtotals, k) = {})

\* C10: a record whose key is in only one aggregated table has a flag set
\* and is highlighted, whatever the values of the side that is present.
C10_OneSidedAlwaysHighlighted ==
    Merged =>
        \A i \in 1..Len(MergedRows) :
            OneSided(MergedRows[i].Section) =>
                /\ MergedRows[i].Mismatch \/ MergedRows[i].Pct_Inconsistency
                /\ pc = "done" => highlighted[i]

\* A highlighted one-sided record of zeros without a percentage.
C10_Witness ==
    /\ pc = "done"
    /\ merged_subtotals.kind = "table"
    /\ \E i \in 1..Len(MergedRows) :
          /\ OneSided(MergedRows[i].Section)
          /\ ~MergedRows[i].Mismatch
          /\ MergedRows[i].Pct_prev = << >>
          /\ MergedRows[i].Pct_curr = << >>
          /\ MergedRows[i].Previous_prev = FormatAccounting(0)
          /\ highlighted[i]

====
